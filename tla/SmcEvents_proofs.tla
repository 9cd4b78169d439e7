--------------------------- MODULE SmcEvents_proofs ---------------------------
(***************************************************************************)
(* Proofs about SmcEvents for every set of threads, codes and data and     *)
(* every number of slots.                                                  *)
(***************************************************************************)
EXTENDS SmcEvents, SequenceTheorems, TLAPS

(* The next-state relation, action by action.                              *)
LEMMA NextCases ==
  ASSUME NEW P, [Next]_vars,
         RegisterInterrupt => P, UnregisterInterrupt => P,
         EnableInterrupt => P, DisableInterrupt => P,
         \A enable \in BOOLEAN : SetInterrupts(enable) => P,
         \A t \in Posters, c \in Codes \cup {NoEvent},
            d \in Data \cup {Oversize} : PostAgain(t, c, d) => P,
         \A t \in Posters, c \in Codes \cup {NoEvent},
            d \in Data \cup {Oversize} : PostNew(t, c, d) => P,
         \A t \in Threads : CauseInterrupt(t) => P,
         \A t \in Threads : CallHandler(t) => P,
         TakeSignal => P, PollEvent => P, GetNothing => P, GetInterrupt => P,
         UNCHANGED vars => P
  PROVE  P
BY DEF Next, Sources, Post, Deliver, Read

(* Type correctness of SmcEvents.                                          *)
THEOREM TypeCorrect == Spec => []TypeOK
<1>1. Init => TypeOK
  <2>1. <<>> \in Seq(Event) /\ Len(<<>>) = 0
    BY EmptySeq
  <2>2. Init => /\ pc \in [Threads -> {"idle", "cause", "call", "read"}]
                /\ \A t \in Posters : pc[t] # "read"
    BY DEF Init, Threads
  <2>3. Init => currentEvent \in [code : Codes \cup {NoEvent},
                                  data : Data \cup {NoData}]
    BY DEF Init
  <2>4. Init => storedInterrupts \in Seq(Event)
                /\ Len(storedInterrupts) <= MaxActiveInterrupts
    BY <2>1, ConstantsAssumption DEF Init
  <2> QED
    BY <2>2, <2>3, <2>4 DEF Init, TypeOK, Registrations
<1>2. TypeOK /\ [Next]_vars => TypeOK'
  <2> SUFFICES ASSUME TypeOK, [Next]_vars PROVE TypeOK'
    OBVIOUS
  <2> USE DEF TypeOK, Threads
  <2>1. ASSUME NEW from, NEW to \in Registrations, SetRegistration(from, to)
        PROVE  TypeOK'
    BY <2>1 DEF SetRegistration
  <2>2. ASSUME RegisterInterrupt PROVE TypeOK'
    BY <2>1, <2>2 DEF RegisterInterrupt, Registrations
  <2>3. ASSUME UnregisterInterrupt PROVE TypeOK'
    BY <2>1, <2>3 DEF UnregisterInterrupt, Registrations
  <2>4. ASSUME EnableInterrupt PROVE TypeOK'
    BY <2>1, <2>4 DEF EnableInterrupt, Registrations
  <2>5. ASSUME DisableInterrupt PROVE TypeOK'
    BY <2>1, <2>5 DEF DisableInterrupt, Registrations
  <2>6. ASSUME NEW enable \in BOOLEAN, SetInterrupts(enable) PROVE TypeOK'
    BY <2>6 DEF SetInterrupts
  <2>7. ASSUME NEW t \in Posters, NEW c \in Codes \cup {NoEvent},
               NEW d \in Data \cup {Oversize}, PostAgain(t, c, d)
        PROVE  TypeOK'
    <3>1. [code |-> c, data |-> d] \in Event
      BY <2>7 DEF PostAgain, Acceptable, Event
    <3>2. storedInterrupts' \in Seq(Event) /\ Len(storedInterrupts') = Len(storedInterrupts)
      <4>1. /\ storedInterrupts' \in [1..Len(storedInterrupts) -> Event]
            /\ Len(storedInterrupts) \in Nat
        BY <2>7, <3>1 DEF PostAgain, Merged
      <4>2. storedInterrupts' \in Seq(Event)
        BY <4>1
      <4>3. DOMAIN storedInterrupts' = 1..Len(storedInterrupts)
        BY <4>1
      <4> QED
        BY <4>1, <4>2, <4>3
    <3> QED
      BY <2>7, <3>2 DEF PostAgain
  <2>8. ASSUME NEW t \in Posters, NEW c \in Codes \cup {NoEvent},
               NEW d \in Data \cup {Oversize}, PostNew(t, c, d)
        PROVE  TypeOK'
    <3>1. [code |-> c, data |-> d] \in Event
      BY <2>8 DEF PostNew, Acceptable, Event
    <3>2. /\ storedInterrupts' \in Seq(Event)
          /\ Len(storedInterrupts') <= MaxActiveInterrupts
      BY <2>8, <3>1, ConstantsAssumption DEF PostNew, HasFreeSlot
    <3>3. pc' \in [Threads -> {"idle", "cause", "call", "read"}]
          /\ \A u \in Posters : pc'[u] # "read"
      BY <2>8 DEF PostNew
    <3> QED
      BY <2>8, <3>2, <3>3 DEF PostNew
  <2>9. ASSUME NEW t \in Threads, CauseInterrupt(t) PROVE TypeOK'
    BY <2>9 DEF CauseInterrupt
  <2>10. ASSUME NEW t \in Threads, CallHandler(t) PROVE TypeOK'
    BY <2>10 DEF CallHandler
  <2>11. ASSUME TakeSignal PROVE TypeOK'
    BY <2>11, ConstantsAssumption DEF TakeSignal
  <2>12. ASSUME PollEvent PROVE TypeOK'
    BY <2>12, ConstantsAssumption DEF PollEvent
  <2>13. ASSUME GetNothing PROVE TypeOK'
    BY <2>13, ConstantsAssumption DEF GetNothing
  <2>14. ASSUME GetInterrupt PROVE TypeOK'
    <3>1. /\ Head(storedInterrupts) \in Event
          /\ Tail(storedInterrupts) \in Seq(Event)
          /\ Len(Tail(storedInterrupts)) <= MaxActiveInterrupts
      BY <2>14, ConstantsAssumption DEF GetInterrupt
    <3> QED
      BY <2>14, <3>1, ConstantsAssumption DEF GetInterrupt, Event
  <2>15. ASSUME UNCHANGED vars PROVE TypeOK'
    BY <2>15 DEF vars
  <2> QED
    BY <2>2, <2>3, <2>4, <2>5, <2>6, <2>7, <2>8, <2>9, <2>10, <2>11, <2>12,
       <2>13, <2>14, <2>15, NextCases
<1>3. QED
  BY <1>1, <1>2, PTL DEF Spec

(* A code is stored at most once, whatever threads post it concurrently.   *)
THEOREM CodesAreUnique == Spec => []UniqueCodes
<1>1. Init => UniqueCodes
  BY DEF Init, UniqueCodes
<1>2. TypeOK /\ UniqueCodes /\ [Next]_vars => UniqueCodes'
  <2> SUFFICES ASSUME TypeOK, UniqueCodes, [Next]_vars PROVE UniqueCodes'
    OBVIOUS
  <2>1. ASSUME UNCHANGED storedInterrupts PROVE UniqueCodes'
    BY <2>1 DEF UniqueCodes
  <2>2. ASSUME NEW t \in Posters, NEW c \in Codes \cup {NoEvent},
               NEW d \in Data \cup {Oversize}, PostAgain(t, c, d)
        PROVE  UniqueCodes'
    BY <2>2 DEF PostAgain, Merged, Holds, UniqueCodes, TypeOK
  <2>3. ASSUME NEW t \in Posters, NEW c \in Codes \cup {NoEvent},
               NEW d \in Data \cup {Oversize}, PostNew(t, c, d)
        PROVE  UniqueCodes'
    BY <2>3 DEF PostNew, Holds, UniqueCodes, TypeOK
  <2>4. ASSUME GetInterrupt PROVE UniqueCodes'
    BY <2>4 DEF GetInterrupt, UniqueCodes, TypeOK
  <2>5. RegisterInterrupt \/ UnregisterInterrupt \/ EnableInterrupt
          \/ DisableInterrupt \/ (\E enable \in BOOLEAN : SetInterrupts(enable))
          \/ (\E t \in Threads : CauseInterrupt(t) \/ CallHandler(t))
          \/ TakeSignal \/ PollEvent \/ GetNothing \/ UNCHANGED vars
        => UNCHANGED storedInterrupts
    BY DEF RegisterInterrupt, UnregisterInterrupt, EnableInterrupt,
           DisableInterrupt, SetRegistration, SetInterrupts, CauseInterrupt,
           CallHandler, TakeSignal, PollEvent, GetNothing, vars
  <2> QED
    BY <2>1, <2>2, <2>3, <2>4, <2>5, NextCases
<1>3. QED
  BY <1>1, <1>2, TypeCorrect, PTL DEF Spec

(* No lost wake-up, for any number of posting threads.                     *)
THEOREM NoLostWakeup == Spec => []WakeupNotLost
<1>1. Init => WakeupNotLost
  BY DEF Init, WakeupNotLost
<1>2. TypeOK /\ WakeupNotLost /\ [Next]_vars => WakeupNotLost'
  <2> SUFFICES ASSUME TypeOK, WakeupNotLost, [Next]_vars PROVE WakeupNotLost'
    OBVIOUS
  <2> USE DEF TypeOK, WakeupNotLost, WakeupUnderWay, Threads
  <2>1. RegisterInterrupt \/ UnregisterInterrupt \/ EnableInterrupt
          \/ DisableInterrupt \/ (\E enable \in BOOLEAN : SetInterrupts(enable))
        => UNCHANGED <<storedInterrupts, pc, signal, missed>>
    BY DEF RegisterInterrupt, UnregisterInterrupt, EnableInterrupt,
           DisableInterrupt, SetRegistration, SetInterrupts
  <2>2. ASSUME NEW t \in Posters, NEW c \in Codes \cup {NoEvent},
               NEW d \in Data \cup {Oversize}, PostAgain(t, c, d)
        PROVE  WakeupNotLost'
    BY <2>2 DEF PostAgain, Merged, Holds
  <2>3. ASSUME NEW t \in Posters, NEW c \in Codes \cup {NoEvent},
               NEW d \in Data \cup {Oversize}, PostNew(t, c, d)
        PROVE  WakeupNotLost'
    <3>1. CASE storedInterrupts = <<>>
      <4>1. pc'[t] = "cause"
        BY <2>3, <3>1 DEF PostNew, IsFirst
      <4> QED
        BY <4>1
    <3>2. CASE storedInterrupts # <<>>
      BY <2>3, <3>2 DEF PostNew, IsFirst
    <3> QED
      BY <3>1, <3>2
  <2>4. ASSUME NEW t \in Threads, CauseInterrupt(t) PROVE WakeupNotLost'
    BY <2>4 DEF CauseInterrupt
  <2>5. ASSUME NEW t \in Threads, CallHandler(t) PROVE WakeupNotLost'
    BY <2>5 DEF CallHandler
  <2>6. ASSUME TakeSignal PROVE WakeupNotLost'
    BY <2>6 DEF TakeSignal
  <2>7. ASSUME PollEvent PROVE WakeupNotLost'
    BY <2>7 DEF PollEvent
  <2>8. ASSUME GetNothing PROVE WakeupNotLost'
    BY <2>8 DEF GetNothing
  <2>9. ASSUME GetInterrupt PROVE WakeupNotLost'
    <3>1. CASE MoreLeft
      <4>1. pc'[Driver] = "cause"
        BY <2>9, <3>1 DEF GetInterrupt
      <4> QED
        BY <4>1
    <3>2. CASE ~MoreLeft
      <4>1. storedInterrupts' = <<>>
        BY <2>9, <3>2 DEF GetInterrupt, MoreLeft
      <4> QED
        BY <4>1
    <3> QED
      BY <3>1, <3>2
  <2>10. ASSUME UNCHANGED <<storedInterrupts, pc, signal, missed>>
         PROVE  WakeupNotLost'
    BY <2>10
  <2>11. UNCHANGED vars => UNCHANGED <<storedInterrupts, pc, signal, missed>>
    BY DEF vars
  <2> QED
    BY <2>1, <2>2, <2>3, <2>4, <2>5, <2>6, <2>7, <2>8, <2>9, <2>10, <2>11,
       NextCases
<1>3. QED
  BY <1>1, <1>2, TypeCorrect, PTL DEF Spec

-----------------------------------------------------------------------------
(* The event queue implements EventMailbox.                                *)

(* Where a stored code stands, and what its slot of the mailbox holds.     *)
LEMMA ContentOfStored ==
  ASSUME TypeOK, UniqueCodes
  PROVE  /\ \A i \in DOMAIN storedInterrupts :
              /\ storedInterrupts[i] \in Event
              /\ Holds(storedInterrupts[i].code) = {i}
              /\ Content(storedInterrupts[i].code) = storedInterrupts[i].data
         /\ \A c : (Holds(c) = {}) <=> (Content(c) = NoData)
<1>1. \A i \in DOMAIN storedInterrupts :
        storedInterrupts[i] \in Event /\ Holds(storedInterrupts[i].code) = {i}
  BY DEF TypeOK, UniqueCodes, Holds
<1>2. \A i \in DOMAIN storedInterrupts :
        Content(storedInterrupts[i].code) = storedInterrupts[i].data
  BY <1>1 DEF Content
<1>3. ASSUME NEW c PROVE (Holds(c) = {}) <=> (Content(c) = NoData)
  <2>1. CASE Holds(c) # {}
    <3>1. PICK i \in DOMAIN storedInterrupts : storedInterrupts[i].code = c
      BY <2>1 DEF Holds
    <3>2. Content(c) \in Data
      BY <3>1, <1>1, <1>2 DEF Event
    <3> QED
      BY <2>1, <3>2, ConstantsAssumption
  <2> QED
    BY <2>1 DEF Content
<1> QED
  BY <1>1, <1>2, <1>3

LEMMA WaitingType ==
  ASSUME TypeOK
  PROVE  /\ Waiting \in Seq(Codes)
         /\ Len(Waiting) = Len(storedInterrupts)
         /\ \A i \in 1..Len(storedInterrupts) :
              Waiting[i] = storedInterrupts[i].code
<1> DEFINE n == Len(storedInterrupts)
<1>1. n \in Nat /\ storedInterrupts \in [1..n -> Event]
  BY LenProperties DEF TypeOK
<1>2. /\ Waiting = [i \in 1..n |-> storedInterrupts[i].code]
      /\ Waiting \in [1..n -> Codes]
  BY <1>1 DEF Waiting, Event
<1>3. Waiting \in Seq(Codes)
  BY <1>1, <1>2, SeqDef
<1> QED
  BY <1>1, <1>2, <1>3, LenProperties

(* Every behaviour of the queue is a behaviour of the mailbox: a code      *)
(* waits at the place of its first post, with the data of its last post.   *)
THEOREM ImplementsMailbox == Spec => MailboxSpec
<1> DEFINE box == [c \in Codes |-> Content(c)]
<1>1. Init => Mailbox!Init
  <2> SUFFICES ASSUME Init PROVE Mailbox!Init
    OBVIOUS
  <2>1. Waiting = <<>>
    BY DEF Init, Waiting
  <2>2. \A c : Content(c) = NoData
    BY DEF Init, Content, Holds
  <2> QED
    BY <2>1, <2>2 DEF Init, Mailbox!Init
<1>2. TypeOK /\ UniqueCodes /\ UniqueCodes' /\ TypeOK' /\ [Next]_vars
        => [Mailbox!Next]_(Mailbox!vars)
  <2> SUFFICES ASSUME TypeOK, UniqueCodes, TypeOK', UniqueCodes', [Next]_vars
               PROVE  [Mailbox!Next]_(Mailbox!vars)
    OBVIOUS
  <2>1. UNCHANGED <<storedInterrupts, currentEvent>> => UNCHANGED Mailbox!vars
    BY DEF Mailbox!vars, Waiting, Content, Holds
  <2>2. RegisterInterrupt \/ UnregisterInterrupt \/ EnableInterrupt
          \/ DisableInterrupt \/ (\E enable \in BOOLEAN : SetInterrupts(enable))
          \/ (\E t \in Threads : CauseInterrupt(t) \/ CallHandler(t))
          \/ TakeSignal \/ PollEvent \/ GetNothing \/ UNCHANGED vars
        => UNCHANGED <<storedInterrupts, currentEvent>>
    BY DEF RegisterInterrupt, UnregisterInterrupt, EnableInterrupt,
           DisableInterrupt, SetRegistration, SetInterrupts, CauseInterrupt,
           CallHandler, TakeSignal, PollEvent, GetNothing, vars
  <2>3. ASSUME NEW t \in Posters, NEW c \in Codes \cup {NoEvent},
               NEW d \in Data \cup {Oversize}, PostAgain(t, c, d)
        PROVE  Mailbox!Next
    <3>1. c \in Codes /\ d \in Data
      BY <2>3 DEF PostAgain, Acceptable
    <3>2. PICK k \in DOMAIN storedInterrupts :
            storedInterrupts[k].code = c /\ Holds(c) = {k}
      BY <2>3, ContentOfStored DEF PostAgain, Holds
    <3>3. /\ DOMAIN storedInterrupts' = DOMAIN storedInterrupts
          /\ \A i \in DOMAIN storedInterrupts :
               storedInterrupts'[i] = IF i = k THEN [code |-> c, data |-> d]
                                               ELSE storedInterrupts[i]
      BY <2>3, <3>2 DEF PostAgain, Merged
    <3>4. Waiting' = Waiting
      BY <3>2, <3>3 DEF Waiting
    <3>5. \A x : Holds(x)' = Holds(x)
      BY <3>2, <3>3 DEF Holds
    <3>6. Content(c)' = d
      BY <3>2, <3>3, <3>5 DEF Content
    <3>7. \A x \in Codes : x # c => Content(x)' = Content(x)
      <4> SUFFICES ASSUME NEW x \in Codes, x # c, Holds(x) # {}
                   PROVE  Content(x)' = Content(x)
        BY <3>5 DEF Content
      <4>1. PICK j \in DOMAIN storedInterrupts :
              storedInterrupts[j].code = x /\ Holds(x) = {j}
        BY ContentOfStored DEF Holds
      <4> QED
        BY <4>1, <3>2, <3>3, <3>5 DEF Content
    <3>8. box' = [box EXCEPT ![c] = d]
      BY <3>1, <3>6, <3>7
    <3>9. Content(c) # NoData
      BY <2>3, ContentOfStored DEF PostAgain
    <3>10. Mailbox!Replace(c, d)
      BY <2>3, <3>1, <3>4, <3>8, <3>9 DEF Mailbox!Replace, PostAgain
    <3> QED
      BY <3>1, <3>10 DEF Mailbox!Next
  <2>4. ASSUME NEW t \in Posters, NEW c \in Codes \cup {NoEvent},
               NEW d \in Data \cup {Oversize}, PostNew(t, c, d)
        PROVE  Mailbox!Next
    <3> DEFINE n == Len(storedInterrupts)
    <3>1. c \in Codes /\ d \in Data
      BY <2>4 DEF PostNew, Acceptable
    <3>2. /\ n \in Nat /\ n < MaxActiveInterrupts
          /\ DOMAIN storedInterrupts = 1..n
          /\ DOMAIN storedInterrupts' = 1..(n + 1)
          /\ \A i \in 1..n : storedInterrupts'[i] = storedInterrupts[i]
          /\ storedInterrupts'[n + 1] = [code |-> c, data |-> d]
      BY <2>4, ConstantsAssumption DEF PostNew, HasFreeSlot, TypeOK
    <3>3. Waiting \in Seq(Codes) /\ Len(Waiting) = n
      BY WaitingType
    <3>4. Waiting' = Append(Waiting, c)
      BY <3>2, <3>3 DEF Waiting
    <3>5. \A x \in Codes : Holds(x)' = IF x = c THEN {n + 1} ELSE Holds(x)
      BY <2>4, <3>2 DEF Holds, PostNew
    <3>6. Content(c)' = d
      BY <3>1, <3>2, <3>5 DEF Content
    <3>7. \A x \in Codes : x # c => Content(x)' = Content(x)
      <4> SUFFICES ASSUME NEW x \in Codes, x # c, Holds(x) # {}
                   PROVE  Content(x)' = Content(x)
        BY <3>5 DEF Content
      <4>1. PICK j \in DOMAIN storedInterrupts :
              storedInterrupts[j].code = x /\ Holds(x) = {j}
        BY ContentOfStored DEF Holds
      <4>2. j \in 1..n /\ storedInterrupts'[j] = storedInterrupts[j]
        BY <4>1, <3>2
      <4>3. Holds(x)' = {j}
        BY <4>1, <3>5
      <4> QED
        BY <4>1, <4>2, <4>3 DEF Content
    <3>8. box' = [box EXCEPT ![c] = d]
      BY <3>1, <3>6, <3>7
    <3>9. Content(c) = NoData
      BY <2>4, ContentOfStored DEF PostNew
    <3>10. Mailbox!Put(c, d)
      BY <2>4, <3>1, <3>2, <3>3, <3>4, <3>8, <3>9 DEF Mailbox!Put, PostNew
    <3> QED
      BY <3>1, <3>10 DEF Mailbox!Next
  <2>5. ASSUME GetInterrupt PROVE Mailbox!Next
    <3> DEFINE n == Len(storedInterrupts)
    <3>1. /\ n \in Nat /\ n > 0
          /\ DOMAIN storedInterrupts = 1..n
          /\ DOMAIN storedInterrupts' = 1..(n - 1)
          /\ \A i \in 1..(n - 1) : storedInterrupts'[i] = storedInterrupts[i + 1]
          /\ Head(storedInterrupts) = storedInterrupts[1]
          /\ storedInterrupts[1] \in Event
      BY <2>5 DEF GetInterrupt, TypeOK
    <3>2. PICK c \in Codes, d \in Data :
            storedInterrupts[1] = [code |-> c, data |-> d]
      BY <3>1 DEF Event
    <3>3. /\ Waiting \in Seq(Codes) /\ Len(Waiting) = n
          /\ Waiting # <<>> /\ Head(Waiting) = c
          /\ \A i \in 1..n : Waiting[i] = storedInterrupts[i].code
      BY <3>1, <3>2, WaitingType
    <3>4. Waiting' = Tail(Waiting)
      <4>1. /\ Tail(Waiting) \in Seq(Codes) /\ Len(Tail(Waiting)) = n - 1
            /\ \A i \in 1..(n - 1) : Tail(Waiting)[i] = Waiting[i + 1]
        BY <3>1, <3>3, HeadTailProperties
      <4>2. /\ Waiting' \in Seq(Codes) /\ Len(Waiting') = Len(storedInterrupts')
            /\ \A i \in 1..Len(storedInterrupts') :
                 Waiting'[i] = storedInterrupts'[i].code
        <5>1. /\ Len(storedInterrupts') \in Nat
              /\ storedInterrupts' \in [1..Len(storedInterrupts') -> Event]
          BY LenProperties DEF TypeOK
        <5>2. /\ Waiting' = [i \in 1..Len(storedInterrupts') |->
                               storedInterrupts'[i].code]
              /\ Waiting' \in [1..Len(storedInterrupts') -> Codes]
          BY <5>1 DEF Waiting, Event
        <5>3. Waiting' \in Seq(Codes)
          BY <5>1, <5>2, SeqDef
        <5> QED
          BY <5>1, <5>2, <5>3, LenProperties
      <4>3. Len(storedInterrupts') = n - 1
        BY <2>5, <3>1 DEF GetInterrupt, TypeOK
      <4>4. \A i \in 1..(n - 1) : Waiting'[i] = Tail(Waiting)[i]
        <5> SUFFICES ASSUME NEW i \in 1..(n - 1)
                     PROVE  Waiting'[i] = Tail(Waiting)[i]
          OBVIOUS
        <5>1. Waiting'[i] = storedInterrupts'[i].code
          BY <4>2, <4>3
        <5>2. Tail(Waiting)[i] = Waiting[i + 1] /\ i + 1 \in 1..n
          BY <4>1, <3>1
        <5> QED
          BY <5>1, <5>2, <3>1, <3>3
      <4> QED
        BY <4>1, <4>2, <4>3, <4>4, SeqEqual
    <3>5. Holds(c) = {1} /\ Content(c) = d
      <4>1. 1 \in DOMAIN storedInterrupts
        BY <3>1
      <4> QED
        BY <4>1, <3>2, ContentOfStored
    <3>6. Holds(c)' = {}
      <4>1. ASSUME NEW i \in 1..(n - 1), storedInterrupts'[i].code = c
            PROVE  FALSE
        <5>1. i + 1 \in Holds(c)
          BY <4>1, <3>1 DEF Holds
        <5> QED
          BY <5>1, <3>5, <3>1
      <4> QED
        BY <4>1, <3>1 DEF Holds
    <3>7. Content(c)' = NoData
      BY <3>6 DEF Content
    <3>8. \A x \in Codes : x # c => Content(x)' = Content(x)
      <4> SUFFICES ASSUME NEW x \in Codes, x # c
                   PROVE  Content(x)' = Content(x)
        OBVIOUS
      <4>1. CASE Holds(x) = {}
        BY <4>1, <3>1 DEF Content, Holds
      <4>2. CASE Holds(x) # {}
        <5>1. PICK j \in DOMAIN storedInterrupts :
                storedInterrupts[j].code = x /\ Holds(x) = {j}
          BY <4>2, ContentOfStored DEF Holds
        <5>2. j - 1 \in 1..(n - 1) /\ (j - 1) + 1 = j
          BY <5>1, <3>1, <3>2
        <5>3. Holds(x)' = {j - 1}
          BY <5>1, <5>2, <3>1 DEF Holds
        <5> QED
          BY <5>1, <5>2, <5>3, <3>1 DEF Content
      <4> QED
        BY <4>1, <4>2
    <3>9. box' = [box EXCEPT ![c] = NoData]
      BY <3>7, <3>8
    <3>10. currentEvent' = [code |-> c, data |-> box[c]]
      BY <2>5, <3>1, <3>2, <3>5 DEF GetInterrupt
    <3>11. Mailbox!Take
      BY <3>3, <3>4, <3>9, <3>10 DEF Mailbox!Take
    <3> QED
      BY <3>11 DEF Mailbox!Next
  <2> QED
    BY <2>1, <2>2, <2>3, <2>4, <2>5, NextCases
<1>3. QED
  BY <1>1, <1>2, TypeCorrect, CodesAreUnique, PTL
     DEF Spec, MailboxSpec, Mailbox!Spec
=============================================================================
