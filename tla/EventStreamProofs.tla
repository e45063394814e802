------------------------- MODULE EventStreamProofs -------------------------
(* Proofs about EventStream, for any number of watchers and connections.   *)
EXTENDS EventStream, SequenceTheorems, TLAPS

Event == Watcher \X Nat

-----------------------------------------------------------------------------
(* The inductive invariant.                                                *)

(* A handler that has yet to register its connection has one that can      *)
(* still be written to, and nothing was written to it.                     *)
Newcomers ==
    \A c \in Client : handler[c] \in {"none", "upgraded"} =>
        /\ inbox[c] = <<>>
        /\ handler[c] = "upgraded" => conn[c] # "closed"

(* Under a broadcast the last event sent is the one its watcher has taken. *)
LastIsTaken ==
    mutex # Nobody => /\ sent # <<>>
                      /\ sent[Len(sent)] = <<mutex, taken[mutex]>>

Owed(c) == \E w \in Watcher : c \in todo[w]

(* The inbox of a connection repeats the events from its registration on;  *)
(* of a registered one it lacks no event, but the one being broadcast as   *)
(* long as the broadcast has not come to it.                               *)
InStep ==
    \A c \in Client :
        /\ joined[c] + Len(inbox[c]) <= Len(sent)
        /\ \A i \in 1 .. Len(inbox[c]) : inbox[c][i] = sent[joined[c] + i]
        /\ c \in clients =>
              joined[c] + Len(inbox[c]) = IF Owed(c) THEN Len(sent) - 1 ELSE Len(sent)

(* A watcher broadcasts what it takes in the order in which it takes it,   *)
(* each event once.                                                        *)
BroadcastOnce ==
    /\ \A i, j \in 1 .. Len(sent) :
          i < j /\ sent[i][1] = sent[j][1] => sent[i][2] < sent[j][2]
    /\ \A i \in 1 .. Len(sent) :
          LET w == sent[i][1] IN
          /\ sent[i][2] <= taken[w]
          /\ at[w] = "lock" => sent[i][2] < taken[w]

StreamInv ==
    /\ TypeOK
    /\ NoOrphans
    /\ Newcomers
    /\ LastIsTaken
    /\ InStep
    /\ BroadcastOnce

-----------------------------------------------------------------------------
(* Lemmas.                                                                 *)

(* Only the broadcast that holds the mutex owes anybody an event, and only *)
(* registered connections are owed one.                                    *)
LEMMA OnlyHolderOwes ==
    ASSUME TypeOK
    PROVE  /\ \A w \in Watcher : w # mutex => todo[w] = {}
           /\ \A c \in Client : Owed(c) => /\ mutex \in Watcher
                                           /\ c \in todo[mutex]
                                           /\ c \in clients
  BY StreamAssumption DEF TypeOK, Owed

LEMMA StreamInit == Init => StreamInv
<1> SUFFICES ASSUME Init PROVE StreamInv
  OBVIOUS
<1>1. <<>> \in Seq(Event) /\ Len(<<>>) = 0
  BY EmptySeq
<1>2. TypeOK
  BY <1>1, StreamAssumption DEF Init, TypeOK, Event
<1>3. NoOrphans /\ Newcomers /\ LastIsTaken /\ BroadcastOnce
  BY <1>1 DEF Init, NoOrphans, Newcomers, LastIsTaken, BroadcastOnce
<1>4. InStep
  BY <1>1 DEF Init, InStep
<1>5. QED
  BY <1>2, <1>3, <1>4 DEF StreamInv

LEMMA TypeStep == TypeOK /\ [Next]_vars => TypeOK'
<1> SUFFICES ASSUME TypeOK, [Next]_vars PROVE TypeOK'
  OBVIOUS
<1> USE DEF watchVars, lockVars, connVars
<1>1. CASE UNCHANGED vars
  BY <1>1 DEF vars, TypeOK
<1>2. ASSUME NEW c \in Client, Peer(c) PROVE TypeOK'
  BY <1>2 DEF Peer, TypeOK
<1>3. ASSUME NEW c \in Client, Upgrade(c) PROVE TypeOK'
  BY <1>3 DEF Upgrade, TypeOK
<1>4. ASSUME NEW c \in Client, AddClient(c) PROVE TypeOK'
  <2>1. Len(sent) \in Nat
    BY DEF TypeOK
  <2>2. QED
    BY <1>4, <2>1 DEF AddClient, TypeOK
<1>5. ASSUME NEW c \in Client, ReadFails(c) PROVE TypeOK'
  BY <1>5 DEF ReadFails, TypeOK
<1>6. ASSUME NEW c \in Client, RemoveClient(c) PROVE TypeOK'
  <2>1. \A w \in Watcher : todo[w] = {}
    BY <1>6, StreamAssumption DEF RemoveClient, TypeOK
  <2>2. QED
    BY <1>6, <2>1 DEF RemoveClient, TypeOK
<1>7. ASSUME NEW w \in Watcher, Emit(w) PROVE TypeOK'
  BY <1>7 DEF Emit, TypeOK
<1>8. ASSUME NEW w \in Watcher, WatchEnds(w) PROVE TypeOK'
  BY <1>8 DEF WatchEnds, TypeOK
<1>9. ASSUME NEW w \in Watcher, ErrorEvent(w) PROVE TypeOK'
  BY <1>9 DEF ErrorEvent, TypeOK
<1>10. ASSUME NEW w \in Watcher, Take(w) PROVE TypeOK'
  BY <1>10 DEF Take, TypeOK
<1>11. ASSUME NEW w \in Watcher, Lock(w) PROVE TypeOK'
  <2>1. <<w, taken[w]>> \in Watcher \X Nat
    BY DEF TypeOK
  <2>2. sent' \in Seq(Watcher \X Nat)
    BY <1>11, <2>1, AppendProperties DEF Lock, TypeOK
  <2>3. QED
    BY <1>11, <2>2, StreamAssumption DEF Lock, TypeOK
<1>12. ASSUME NEW w \in Watcher, NEW c \in Client, Write(w, c) PROVE TypeOK'
  <2>1. <<w, taken[w]>> \in Watcher \X Nat /\ inbox[c] \in Seq(Watcher \X Nat)
    BY DEF TypeOK
  <2>2. Append(inbox[c], <<w, taken[w]>>) \in Seq(Watcher \X Nat)
    BY <2>1, AppendProperties
  <2>3. inbox' \in [Client -> Seq(Watcher \X Nat)]
    BY <1>12, <2>2 DEF Write, TypeOK
  <2>4. QED
    BY <1>12, <2>3 DEF Write, TypeOK
<1>13. ASSUME NEW w \in Watcher, NEW c \in Client, WriteFails(w, c) PROVE TypeOK'
  <2>1. \A v \in Watcher : v # w => todo[v] = {}
    BY <1>13 DEF WriteFails, TypeOK
  <2>2. QED
    BY <1>13, <2>1 DEF WriteFails, TypeOK
<1>14. ASSUME NEW w \in Watcher, Unlock(w) PROVE TypeOK'
  BY <1>14, StreamAssumption DEF Unlock, TypeOK
<1>15. QED
  BY <1>1, <1>2, <1>3, <1>4, <1>5, <1>6, <1>7, <1>8, <1>9, <1>10, <1>11, <1>12,
     <1>13, <1>14 DEF Next, Serve, Run

(* The events every watcher emits, the state of every watcher, every       *)
(* broadcast, every connection and its inbox have their types.             *)
THEOREM TypeCorrect == Spec => []TypeOK
<1>1. Init => TypeOK
  BY StreamInit DEF StreamInv
<1>2. QED
  BY <1>1, TypeStep, PTL DEF Spec

-----------------------------------------------------------------------------
(* The handlers of the connections.                                        *)

LEMMA HandlersStep ==
    TypeOK /\ NoOrphans /\ Newcomers /\ [Next]_vars => NoOrphans' /\ Newcomers'
<1> SUFFICES ASSUME TypeOK, NoOrphans, Newcomers, [Next]_vars
             PROVE  NoOrphans' /\ Newcomers'
  OBVIOUS
<1> USE DEF NoOrphans, Newcomers
<1>1. CASE UNCHANGED <<clients, conn, handler, inbox>>
  BY <1>1
<1>2. ASSUME NEW c \in Client, Peer(c) PROVE NoOrphans' /\ Newcomers'
  BY <1>2 DEF Peer, TypeOK
<1>3. ASSUME NEW c \in Client, Upgrade(c) PROVE NoOrphans' /\ Newcomers'
  BY <1>3 DEF Upgrade, TypeOK
<1>4. ASSUME NEW c \in Client, AddClient(c) PROVE NoOrphans' /\ Newcomers'
  BY <1>4 DEF AddClient, TypeOK
<1>5. ASSUME NEW c \in Client, ReadFails(c) PROVE NoOrphans' /\ Newcomers'
  BY <1>5 DEF ReadFails, TypeOK
<1>6. ASSUME NEW c \in Client, RemoveClient(c) PROVE NoOrphans' /\ Newcomers'
  BY <1>6 DEF RemoveClient, TypeOK
<1>7. ASSUME NEW w \in Watcher, NEW c \in Client, Write(w, c)
      PROVE  NoOrphans' /\ Newcomers'
  <2>1. c \in clients /\ handler[c] \in {"reading", "removing"}
    BY <1>7 DEF Write, TypeOK
  <2>2. QED
    BY <1>7, <2>1 DEF Write, TypeOK
<1>8. ASSUME NEW w \in Watcher, NEW c \in Client, WriteFails(w, c)
      PROVE  NoOrphans' /\ Newcomers'
  <2>1. c \in clients /\ handler[c] \in {"reading", "removing"}
    BY <1>8 DEF WriteFails, TypeOK
  <2>2. QED
    BY <1>8, <2>1 DEF WriteFails, TypeOK
<1>9. ASSUME NEW w \in Watcher,
             Emit(w) \/ WatchEnds(w) \/ ErrorEvent(w) \/ Take(w) \/ Lock(w) \/ Unlock(w)
      PROVE  UNCHANGED <<clients, conn, handler, inbox>>
  BY <1>9 DEF Emit, WatchEnds, ErrorEvent, Take, Lock, Unlock, connVars
<1>10. UNCHANGED vars => UNCHANGED <<clients, conn, handler, inbox>>
  BY DEF vars, connVars
<1>11. QED
  BY <1>1, <1>2, <1>3, <1>4, <1>5, <1>6, <1>7, <1>8, <1>9, <1>10
     DEF Next, Serve, Run

-----------------------------------------------------------------------------
(* The broadcasts.                                                         *)

(* What is appended to the events sent leaves the earlier ones alone.      *)
LEMMA SentByLock ==
    ASSUME TypeOK, NEW w \in Watcher, Lock(w)
    PROVE  /\ Len(sent) \in Nat
           /\ Len(sent') = Len(sent) + 1
           /\ sent' # <<>>
           /\ \A i \in 1 .. Len(sent) : sent'[i] = sent[i]
           /\ sent'[Len(sent')] = <<w, taken[w]>>
<1>1. sent \in Seq(Event) /\ <<w, taken[w]>> \in Event
  BY DEF TypeOK, Event
<1>2. sent' = Append(sent, <<w, taken[w]>>)
  BY DEF Lock
<1>3. QED
  BY <1>1, <1>2, AppendProperties, LenProperties

LEMMA SentOtherwise ==
    ASSUME [Next]_vars, \A w \in Watcher : ~Lock(w)
    PROVE  UNCHANGED sent
  BY DEF Next, Serve, Run, Peer, Upgrade, AddClient, ReadFails, RemoveClient, Emit,
         WatchEnds, ErrorEvent, Take, Unlock, Write, WriteFails, vars, lockVars

LEMMA LastIsTakenStep == TypeOK /\ LastIsTaken /\ [Next]_vars => LastIsTaken'
<1> SUFFICES ASSUME TypeOK, LastIsTaken, [Next]_vars PROVE LastIsTaken'
  OBVIOUS
<1>1. CASE UNCHANGED <<mutex, sent, taken>>
  BY <1>1 DEF LastIsTaken
<1>2. ASSUME NEW w \in Watcher, Take(w) PROVE LastIsTaken'
  <2>1. mutex # w /\ UNCHANGED <<mutex, sent>>
    BY <1>2 DEF Take, TypeOK, lockVars
  <2>2. mutex # Nobody => mutex \in Watcher /\ taken'[mutex] = taken[mutex]
    BY <1>2, <2>1 DEF Take, TypeOK
  <2>3. QED
    BY <2>1, <2>2 DEF LastIsTaken
<1>3. ASSUME NEW w \in Watcher, Lock(w) PROVE LastIsTaken'
  <2>1. mutex' = w /\ taken' = taken
    BY <1>3 DEF Lock
  <2>2. QED
    BY <1>3, <2>1, SentByLock DEF LastIsTaken
<1>4. ASSUME NEW w \in Watcher, Unlock(w) PROVE LastIsTaken'
  BY <1>4 DEF Unlock, LastIsTaken
<1>5. ASSUME \A w \in Watcher : ~Take(w) /\ ~Lock(w) /\ ~Unlock(w)
      PROVE  UNCHANGED <<mutex, sent, taken>>
  BY <1>5 DEF Next, Serve, Run, Peer, Upgrade, AddClient, ReadFails, RemoveClient,
              Emit, WatchEnds, ErrorEvent, Write, WriteFails, vars, watchVars, lockVars
<1>6. QED
  BY <1>1, <1>2, <1>3, <1>4, <1>5

LEMMA BroadcastOnceStep == TypeOK /\ BroadcastOnce /\ [Next]_vars => BroadcastOnce'
<1> SUFFICES ASSUME TypeOK, BroadcastOnce, [Next]_vars PROVE BroadcastOnce'
  OBVIOUS
<1>s. \A i \in 1 .. Len(sent) : sent[i] \in Watcher \X Nat
  BY ElementOfSeq DEF TypeOK
<1>1. CASE UNCHANGED <<sent, taken, at>>
  BY <1>1 DEF BroadcastOnce
<1>2. ASSUME NEW w \in Watcher, Take(w) PROVE BroadcastOnce'
  <2>1. sent' = sent
    BY <1>2 DEF Take, lockVars
  <2>2. /\ taken'[w] = taken[w] + 1 /\ at'[w] = "lock"
        /\ \A v \in Watcher : v # w => taken'[v] = taken[v] /\ at'[v] = at[v]
    BY <1>2 DEF Take, TypeOK
  <2>3. ASSUME NEW i \in 1 .. Len(sent)
        PROVE  LET v == sent[i][1] IN
               /\ sent[i][2] <= taken'[v]
               /\ at'[v] = "lock" => sent[i][2] < taken'[v]
    <3>1. sent[i][1] \in Watcher /\ sent[i][2] \in Nat /\ taken[sent[i][1]] \in Nat
      BY <1>s DEF TypeOK
    <3>2. /\ sent[i][2] <= taken[sent[i][1]]
          /\ at[sent[i][1]] = "lock" => sent[i][2] < taken[sent[i][1]]
      BY DEF BroadcastOnce
    <3>3. QED
      BY <2>2, <3>1, <3>2
  <2>4. QED
    BY <2>1, <2>3 DEF BroadcastOnce
<1>3. ASSUME NEW w \in Watcher, Lock(w) PROVE BroadcastOnce'
  <2> DEFINE last == Len(sent')
  <2>1. /\ at[w] = "lock" /\ taken' = taken /\ at'[w] = "write"
        /\ \A v \in Watcher : v # w => at'[v] = at[v]
    BY <1>3 DEF Lock, TypeOK
  <2>2. /\ Len(sent) \in Nat /\ last = Len(sent) + 1
        /\ \A i \in 1 .. Len(sent) : sent'[i] = sent[i]
        /\ sent'[last] = <<w, taken[w]>>
    BY <1>3, SentByLock
  <2> HIDE DEF last
  <2>3. \A i \in 1 .. last : i = last \/ i \in 1 .. Len(sent)
    BY <2>2
  <2>4. ASSUME NEW i \in 1 .. last, NEW j \in 1 .. last, i < j,
               sent'[i][1] = sent'[j][1]
        PROVE  sent'[i][2] < sent'[j][2]
    <3>1. i \in 1 .. Len(sent)
      BY <2>2, <2>4
    <3>2. CASE j \in 1 .. Len(sent)
      BY <2>2, <2>4, <3>1, <3>2 DEF BroadcastOnce
    <3>3. CASE j = last
      <4>1. sent[i][1] = w
        BY <2>2, <2>4, <3>1, <3>3
      <4>2. sent[i][2] < taken[w]
        BY <2>1, <3>1, <4>1 DEF BroadcastOnce
      <4>3. QED
        BY <2>2, <3>1, <3>3, <4>2
    <3>4. QED
      BY <2>3, <3>2, <3>3
  <2>5. ASSUME NEW i \in 1 .. last
        PROVE  LET v == sent'[i][1] IN
               /\ sent'[i][2] <= taken'[v]
               /\ at'[v] = "lock" => sent'[i][2] < taken'[v]
    <3>1. CASE i = last
      <4>1. taken[w] \in Nat
        BY DEF TypeOK
      <4>2. sent'[i][1] = w /\ sent'[i][2] = taken[w]
        BY <2>2, <3>1
      <4>3. QED
        BY <2>1, <4>1, <4>2
    <3>2. CASE i \in 1 .. Len(sent)
      <4>1. /\ sent[i][2] <= taken[sent[i][1]]
            /\ at[sent[i][1]] = "lock" => sent[i][2] < taken[sent[i][1]]
        BY <3>2 DEF BroadcastOnce
      <4>2. sent'[i] = sent[i] /\ sent[i][1] \in Watcher
        BY <1>s, <2>2, <3>2
      <4>3. QED
        BY <2>1, <4>1, <4>2
    <3>3. QED
      BY <2>3, <3>1, <3>2
  <2>6. QED
    BY <2>4, <2>5 DEF BroadcastOnce, last
<1>4. ASSUME NEW w \in Watcher, WatchEnds(w) \/ Unlock(w) PROVE BroadcastOnce'
  <2>1. /\ sent' = sent /\ taken' = taken
        /\ \A v \in Watcher : at'[v] = "lock" => at[v] = "lock"
    BY <1>4 DEF WatchEnds, Unlock, lockVars, TypeOK
  <2>2. \A i \in 1 .. Len(sent) : sent[i][1] \in Watcher
    BY <1>s
  <2>3. QED
    BY <2>1, <2>2 DEF BroadcastOnce
<1>5. ASSUME \A w \in Watcher : ~Take(w) /\ ~Lock(w) /\ ~WatchEnds(w) /\ ~Unlock(w)
      PROVE  UNCHANGED <<sent, taken, at>>
  BY <1>5 DEF Next, Serve, Run, Peer, Upgrade, AddClient, ReadFails, RemoveClient,
              Emit, ErrorEvent, Write, WriteFails, vars, watchVars, lockVars
<1>6. QED
  BY <1>1, <1>2, <1>3, <1>4, <1>5

-----------------------------------------------------------------------------
(* The inboxes.                                                            *)

(* The invariant of one connection, so that a step which leaves it alone   *)
(* can be told from one that does not.                                     *)
InboxInStep(c) ==
    /\ joined[c] + Len(inbox[c]) <= Len(sent)
    /\ \A i \in 1 .. Len(inbox[c]) : inbox[c][i] = sent[joined[c] + i]
    /\ c \in clients =>
          joined[c] + Len(inbox[c]) = IF Owed(c) THEN Len(sent) - 1 ELSE Len(sent)

LEMMA ByInbox == InStep <=> \A c \in Client : InboxInStep(c)
  BY DEF InStep, InboxInStep

LEMMA Lengths ==
    ASSUME TypeOK, NEW c \in Client
    PROVE  Len(sent) \in Nat /\ Len(inbox[c]) \in Nat /\ joined[c] \in Nat
  BY DEF TypeOK

(* Nothing that is about connection c changes, or c leaves the map.        *)
LEMMA Untouched ==
    ASSUME TypeOK, NEW c \in Client, InboxInStep(c),
           UNCHANGED <<sent, inbox, joined>>,
           c \in clients' => c \in clients,
           c \in clients' => (Owed(c)' <=> Owed(c))
    PROVE  InboxInStep(c)'
  BY DEF InboxInStep

LEMMA AddClientInStep ==
    ASSUME StreamInv, NEW c \in Client, AddClient(c)
    PROVE  InStep'
<1>1. TypeOK /\ Newcomers /\ \A d \in Client : InboxInStep(d)
  BY ByInbox DEF StreamInv
<1>2. /\ UNCHANGED <<sent, inbox, todo>>
      /\ clients' = clients \cup {c}
      /\ joined' = [joined EXCEPT ![c] = Len(sent)]
      /\ inbox[c] = <<>>
    BY <1>1 DEF AddClient, Newcomers, lockVars
<1>3. \A d \in Client : ~Owed(d) /\ ~Owed(d)'
  <2>1. \A w \in Watcher : todo[w] = {}
    BY <1>1, OnlyHolderOwes, StreamAssumption DEF AddClient
  <2>2. QED
    BY <1>2, <2>1 DEF Owed
<1>4. InboxInStep(c)'
  <2>1. joined'[c] = Len(sent) /\ Len(inbox[c]) = 0 /\ Len(sent) \in Nat
    BY <1>1, <1>2, Lengths DEF TypeOK
  <2>2. QED
    BY <1>2, <1>3, <2>1 DEF InboxInStep
<1>5. ASSUME NEW d \in Client, d # c PROVE InboxInStep(d)'
  <2>1. joined'[d] = joined[d] /\ (d \in clients' <=> d \in clients)
    BY <1>1, <1>2, <1>5 DEF TypeOK
  <2>2. QED
    BY <1>1, <1>2, <1>3, <2>1 DEF InboxInStep
<1>6. QED
  BY <1>4, <1>5, ByInbox DEF InStep, InboxInStep

LEMMA LockInStep ==
    ASSUME StreamInv, NEW w \in Watcher, Lock(w)
    PROVE  InStep'
<1>1. TypeOK /\ \A d \in Client : InboxInStep(d)
  BY ByInbox DEF StreamInv
<1>2. UNCHANGED <<inbox, joined, clients>> /\ todo'[w] = clients
  BY <1>1 DEF Lock, connVars, TypeOK
<1>3. /\ Len(sent') = Len(sent) + 1
      /\ \A i \in 1 .. Len(sent) : sent'[i] = sent[i]
  BY <1>1, SentByLock
<1>4. ASSUME NEW d \in Client PROVE InboxInStep(d)'
  <2>1. Len(sent) \in Nat /\ Len(inbox[d]) \in Nat /\ joined[d] \in Nat
    BY <1>1, Lengths
  <2>2. joined[d] + Len(inbox[d]) <= Len(sent)
    BY <1>1 DEF InboxInStep
  <2>3. ASSUME NEW i \in 1 .. Len(inbox[d])
        PROVE  inbox[d][i] = sent'[joined[d] + i]
    <3>1. joined[d] + i \in 1 .. Len(sent)
      BY <2>1, <2>2
    <3>2. QED
      BY <1>1, <1>3, <3>1 DEF InboxInStep
  <2>4. ASSUME d \in clients
        PROVE  Owed(d)' /\ joined[d] + Len(inbox[d]) = Len(sent)
    <3>1. ~Owed(d)
      BY <1>1, OnlyHolderOwes, StreamAssumption DEF Lock
    <3>2. QED
      BY <1>1, <1>2, <2>4, <3>1 DEF InboxInStep, Owed
  <2>5. QED
    BY <1>2, <1>3, <2>1, <2>2, <2>3, <2>4 DEF InboxInStep
<1>5. QED
  BY <1>4, ByInbox DEF InStep, InboxInStep

LEMMA WriteInStep ==
    ASSUME StreamInv, NEW w \in Watcher, NEW c \in Client, Write(w, c)
    PROVE  InStep'
<1> DEFINE event == <<w, taken[w]>>
<1>1. TypeOK /\ LastIsTaken /\ \A d \in Client : InboxInStep(d)
  BY ByInbox DEF StreamInv
<1>2. /\ UNCHANGED <<sent, joined, clients>>
      /\ inbox' = [inbox EXCEPT ![c] = Append(@, event)]
      /\ todo' = [todo EXCEPT ![w] = @ \ {c}]
      /\ at[w] = "write" /\ c \in todo[w]
  BY DEF Write
<1>3. mutex = w /\ mutex # Nobody /\ c \in clients /\ Owed(c)
  BY <1>1, <1>2, StreamAssumption DEF TypeOK, Owed
<1>4. sent[Len(sent)] = event
  BY <1>1, <1>3 DEF LastIsTaken
<1>5. \A v \in Watcher : v # w => todo[v] = {} /\ todo'[v] = {}
  BY <1>1, <1>2, <1>3, OnlyHolderOwes DEF TypeOK
<1>6. c \notin todo'[w] /\ \A d \in Client : d # c => (d \in todo'[w] <=> d \in todo[w])
  BY <1>1, <1>2 DEF TypeOK
<1>7. ~Owed(c)' /\ \A d \in Client : d # c => (Owed(d)' <=> Owed(d))
  BY <1>5, <1>6 DEF Owed
<1>8. InboxInStep(c)'
  <2>1. inbox[c] \in Seq(Event) /\ event \in Event
    BY <1>1 DEF TypeOK, Event
  <2>2. /\ Len(inbox'[c]) = Len(inbox[c]) + 1
        /\ \A i \in 1 .. Len(inbox[c]) : inbox'[c][i] = inbox[c][i]
        /\ inbox'[c][Len(inbox[c]) + 1] = event
    <3>1. inbox'[c] = Append(inbox[c], event)
      BY <1>1, <1>2 DEF TypeOK
    <3>2. QED
      BY <2>1, <3>1, AppendProperties
  <2>3. joined[c] + Len(inbox[c]) = Len(sent) - 1
    BY <1>1, <1>3 DEF InboxInStep
  <2>4. Len(sent) \in Nat /\ Len(inbox[c]) \in Nat /\ joined[c] \in Nat
    BY <1>1, Lengths
  <2>5. joined[c] + Len(inbox'[c]) = Len(sent)
    BY <2>2, <2>3, <2>4
  <2>6. ASSUME NEW i \in 1 .. Len(inbox'[c])
        PROVE  inbox'[c][i] = sent[joined[c] + i]
    <3>1. CASE i \in 1 .. Len(inbox[c])
      BY <1>1, <2>2, <3>1 DEF InboxInStep
    <3>2. CASE i = Len(inbox[c]) + 1
      <4>1. joined[c] + i = Len(sent)
        BY <2>3, <2>4, <3>2
      <4>2. QED
        BY <1>4, <2>2, <3>2, <4>1
    <3>3. QED
      BY <2>2, <2>4, <3>1, <3>2
  <2>7. QED
    BY <1>2, <1>7, <2>4, <2>5, <2>6 DEF InboxInStep
<1>9. ASSUME NEW d \in Client, d # c PROVE InboxInStep(d)'
  <2>1. inbox'[d] = inbox[d]
    BY <1>1, <1>2, <1>9 DEF TypeOK
  <2>2. Owed(d)' <=> Owed(d)
    BY <1>7, <1>9
  <2>3. InboxInStep(d)
    BY <1>1
  <2>4. QED
    BY <1>2, <2>1, <2>2, <2>3 DEF InboxInStep
<1>10. QED
  BY <1>8, <1>9, ByInbox DEF InStep, InboxInStep

LEMMA WriteFailsInStep ==
    ASSUME StreamInv, NEW w \in Watcher, NEW c \in Client, WriteFails(w, c)
    PROVE  InStep'
<1>1. TypeOK /\ \A d \in Client : InboxInStep(d)
  BY ByInbox DEF StreamInv
<1>2. /\ UNCHANGED <<sent, inbox, joined>>
      /\ clients' = clients \ {c}
      /\ todo' = [todo EXCEPT ![w] = @ \ {c}]
  BY DEF WriteFails
<1>3. \A d \in Client : d # c => (Owed(d)' <=> Owed(d))
  <2>1. \A d \in Client, v \in Watcher : d # c => (d \in todo'[v] <=> d \in todo[v])
    BY <1>1, <1>2 DEF TypeOK
  <2>2. QED
    BY <2>1 DEF Owed
<1>4. ASSUME NEW d \in Client PROVE InboxInStep(d)'
  BY <1>1, <1>2, <1>3, Untouched
<1>5. QED
  BY <1>4, ByInbox DEF InStep, InboxInStep

LEMMA OthersInStep ==
    ASSUME StreamInv, [Next]_vars,
           \A c \in Client : ~AddClient(c),
           \A w \in Watcher : ~Lock(w),
           \A w \in Watcher, c \in Client : ~Write(w, c) /\ ~WriteFails(w, c)
    PROVE  InStep'
<1>1. TypeOK /\ \A d \in Client : InboxInStep(d)
  BY ByInbox DEF StreamInv
<1>2. UNCHANGED <<sent, inbox, joined, todo>> /\ clients' \subseteq clients
  BY DEF Next, Serve, Run, Peer, Upgrade, ReadFails, RemoveClient, Emit, WatchEnds,
         ErrorEvent, Take, Unlock, vars, watchVars, lockVars, connVars
<1>3. \A d \in Client : Owed(d)' <=> Owed(d)
  BY <1>2 DEF Owed
<1>4. ASSUME NEW d \in Client PROVE InboxInStep(d)'
  BY <1>1, <1>2, <1>3, Untouched
<1>5. QED
  BY <1>4, ByInbox DEF InStep, InboxInStep

-----------------------------------------------------------------------------
(* Theorems.                                                               *)

LEMMA StreamStep == StreamInv /\ [Next]_vars => StreamInv'
<1> SUFFICES ASSUME StreamInv, [Next]_vars PROVE StreamInv'
  OBVIOUS
<1>1. TypeOK' /\ NoOrphans' /\ Newcomers' /\ LastIsTaken' /\ BroadcastOnce'
  BY TypeStep, HandlersStep, LastIsTakenStep, BroadcastOnceStep DEF StreamInv
<1>2. InStep'
  BY AddClientInStep, LockInStep, WriteInStep, WriteFailsInStep, OthersInStep
<1>3. QED
  BY <1>1, <1>2 DEF StreamInv

THEOREM StreamsKeepStep == Spec => []StreamInv
  BY StreamInit, StreamStep, PTL DEF Spec

(* RemoveClient and a failed write take a connection out of the map before *)
(* its handler ends: none stays behind, and none is written to once it is  *)
(* closed.                                                                 *)
THEOREM NoConnectionLeaks == Spec => []NoOrphans
<1>1. StreamInv => NoOrphans
  BY DEF StreamInv
<1>2. QED
  BY <1>1, StreamsKeepStep, PTL

LEMMA InStepIsSameStream == StreamInv => SameStream
<1> SUFFICES ASSUME StreamInv, NEW c \in Client
             PROVE  inbox[c] = SubSeq(sent, joined[c] + 1, joined[c] + Len(inbox[c]))
  BY DEF SameStream
<1> DEFINE first   == joined[c] + 1
           last    == joined[c] + Len(inbox[c])
           stretch == SubSeq(sent, first, last)
<1>1. TypeOK /\ InboxInStep(c)
  BY ByInbox DEF StreamInv
<1>2. Len(sent) \in Nat /\ Len(inbox[c]) \in Nat /\ joined[c] \in Nat
  BY <1>1, Lengths
<1>3. inbox[c] \in Seq(Event) /\ sent \in Seq(Event)
  BY <1>1 DEF TypeOK, Event
<1>4. joined[c] + Len(inbox[c]) <= Len(sent)
  BY <1>1 DEF InboxInStep
<1>5. \A i \in joined[c] + 1 .. joined[c] + Len(inbox[c]) : sent[i] \in Event
  BY <1>2, <1>3, <1>4, ElementOfSeq
<1>6. /\ stretch \in Seq(Event)
      /\ Len(stretch) = Len(inbox[c])
      /\ \A i \in 1 .. Len(inbox[c]) : stretch[i] = sent[joined[c] + i]
  <2>1. first \in Int /\ last \in Int /\ \A i \in first .. last : sent[i] \in Event
    BY <1>2, <1>5
  <2>2. last - first + 1 = Len(inbox[c])
    BY <1>2
  <2>3. \A i \in 1 .. Len(inbox[c]) : first + i - 1 = joined[c] + i
    BY <1>2
  <2>4. Len(inbox[c]) = IF first <= last THEN last - first + 1 ELSE 0
    BY <1>2
  <2> HIDE DEF first, last
  <2>5. /\ stretch \in Seq(Event)
        /\ Len(stretch) = IF first <= last THEN last - first + 1 ELSE 0
        /\ \A i \in 1 .. last - first + 1 : stretch[i] = sent[first + i - 1]
    BY <2>1, SubSeqProperties
  <2> HIDE DEF stretch
  <2>6. QED
    BY <2>2, <2>3, <2>4, <2>5
<1>7. \A i \in 1 .. Len(inbox[c]) : inbox[c][i] = stretch[i]
  BY <1>1, <1>6 DEF InboxInStep
<1>8. QED
  BY <1>3, <1>6, <1>7, SeqEqual

(* Broadcast holds the mutex from the first connection to the last, so     *)
(* every dashboard gets the one sequence of events that was broadcast from *)
(* its registration on, without a gap or a repetition.                     *)
THEOREM DashboardsAgree == Spec => []SameStream
  BY StreamsKeepStep, InStepIsSameStream, PTL

(* A dashboard gets the events of one watch in the order in which the      *)
(* watch yielded them, and none of them twice.                             *)
WatchOrder ==
    \A c \in Client : \A i, j \in 1 .. Len(inbox[c]) :
        i < j /\ inbox[c][i][1] = inbox[c][j][1] => inbox[c][i][2] < inbox[c][j][2]

LEMMA BroadcastOnceIsWatchOrder == StreamInv => WatchOrder
<1> SUFFICES ASSUME StreamInv, NEW c \in Client,
                    NEW i \in 1 .. Len(inbox[c]), NEW j \in 1 .. Len(inbox[c]),
                    i < j, inbox[c][i][1] = inbox[c][j][1]
             PROVE  inbox[c][i][2] < inbox[c][j][2]
  BY DEF WatchOrder
<1>1. TypeOK /\ InboxInStep(c) /\ BroadcastOnce
  BY ByInbox DEF StreamInv
<1>2. Len(sent) \in Nat /\ Len(inbox[c]) \in Nat /\ joined[c] \in Nat
  BY <1>1, Lengths
<1>3. /\ joined[c] + i \in 1 .. Len(sent)
      /\ joined[c] + j \in 1 .. Len(sent)
      /\ joined[c] + i < joined[c] + j
  BY <1>1, <1>2 DEF InboxInStep
<1>4. inbox[c][i] = sent[joined[c] + i] /\ inbox[c][j] = sent[joined[c] + j]
  BY <1>1 DEF InboxInStep
<1>5. QED
  BY <1>1, <1>3, <1>4 DEF BroadcastOnce

THEOREM EachEventOnce == Spec => []WatchOrder
  BY StreamsKeepStep, BroadcastOnceIsWatchOrder, PTL
=============================================================================
